---- MODULE Spec2Model ----
(***************************************************************************)
(* Task list: the record store (src/storage/tasksStorage.ts) over one      *)
(* AsyncStorage key and the task session (src/hooks/useTasks.ts) that      *)
(* mirrors it.  Every storage call is a suspension point: an operation is  *)
(* a call record that moves from "get" (getItem pending) to "set" (setItem *)
(* pending) to "ret" (the store function has returned, the session         *)
(* continuation has not run yet), or to "fail" when the storage rejects.   *)
(*                                                                         *)
(* Timestamps are the millisecond clock readings that toISOString encodes  *)
(* (the encoding is injective and order preserving, so the reading stands  *)
(* for the string).  A draw of a random source never repeats an earlier    *)
(* draw; the all-zero byte buffer is the value 0, which no draw returns.   *)
(***************************************************************************)
EXTENDS Integers, Sequences, FiniteSets, TLC

\* ---------------------------------------------------------------- bounds
MaxClock == 1    \* clock readings 0..MaxClock
MaxCreates  == 2    \* create calls issued in one run
MaxOps      == 3    \* session operations issued after mount
MaxFails    == 1    \* storage calls that reject
MaxInFlight == 2    \* overlapping calls when the caller does not await
MaxOverlapOps   == 2  \* session operations issued when calls overlap

VARIABLES
  blob,       \* the value under STORAGE_KEY
  clock,      \* Date.now()
  cryptoEnv,  \* what globalThis.crypto is in this runtime
  nextRand,   \* number of ids generated so far
  awaited,    \* the caller awaits each call before issuing the next
  mounted,    \* the mount effect has run
  tasks,      \* useState: the mirror
  loading,    \* useState
  error,      \* useState
  stats,      \* useMemo over tasks
  calls,      \* operations in flight
  nOps,       \* operations issued
  nFail,      \* storage rejections so far
  everIds,    \* ids the mirror has shown, which a caller may still hold
  liveIds,    \* ids whose createTask resolved with no removeTask of the id
              \* and no clear in flight then or issued since
  budget,     \* session operations the run may issue
  lastCreate  \* the id and the collection read by the createTask that
              \* resolved last, while no operation has been issued since

vars == <<blob, clock, cryptoEnv, nextRand, awaited, mounted, tasks, loading,
          error, stats, calls, nOps, nFail, everIds, liveIds, budget,
          lastCreate>>

\* What no step changes
fixed == <<cryptoEnv, awaited, budget>>

\* ------------------------------------------------------------ Task values
\* JavaScript undefined, as the value of an optional string field
Undefined == "<undefined>"
\* error === null
NoError == "<null>"

\* A Task is a function from its keys to values; an optional key may be
\* missing from the domain (JSON never carries a key whose value is undefined).
TaskKeys == {"id", "title", "description", "createdAt", "updatedAt", "done"}

\* t.description as JavaScript reads it: undefined when the key is missing
Description(t) == IF "description" \in DOMAIN t THEN t["description"] ELSE Undefined

\* The field values of a task, whatever way an undefined field is stored
FieldValues(t) ==
  [k \in DOMAIN t \cup {"description"} |->
     IF k = "description" THEN Description(t) ELSE t[k]]

FieldValuesOf(ts) == [i \in 1..Len(ts) |-> FieldValues(ts[i])]

Ids(ts) == {ts[i]["id"] : i \in 1..Len(ts)}

\* --------------------------------------------------------------- storage
Absent == [kind |-> "absent", val |-> <<>>]

\* A JSON value that is not an array: one task object saved on its own
StrayObject ==
  [id |-> [gen |-> "none", n |-> 1, ts |-> 0], title |-> "x",
   createdAt |-> 0, updatedAt |-> 0, done |-> TRUE]

\* Values the key can hold when the session starts: no key, the empty
\* string, text that is not JSON, JSON of a non-array value.  val is the
\* value the text stands for.
InitialBlobs ==
  { Absent,
    [kind |-> "empty",   val |-> <<>>],
    [kind |-> "garbage", val |-> <<>>],
    [kind |-> "object",  val |-> StrayObject] }

\* An object with an id that is not a Task: it has no title
ForeignTask ==
  [id |-> [gen |-> "none", n |-> 2, ts |-> 0],
   createdAt |-> 0, updatedAt |-> 0, done |-> FALSE]

\* A JSON array that something other than saveAll stored: getAll returns
\* its elements as they are (parsed as Task[])
ForeignArray == [kind |-> "array", val |-> <<ForeignTask>>]

\* The keys a Task has: description is optional, the others are not
WellFormed(t) ==
  /\ DOMAIN t \subseteq TaskKeys
  /\ TaskKeys \ {"description"} \subseteq DOMAIN t

\* JSON.stringify drops the keys whose value is undefined
StringifyTask(t) ==
  [k \in {x \in DOMAIN t : ~(x = "description" /\ t[x] = Undefined)} |-> t[k]]

JsonStringify(ts) ==
  [kind |-> "array", val |-> [i \in 1..Len(ts) |-> StringifyTask(ts[i])]]

\* saveAll: the value under the key after setItem
SaveAll(ts) == JsonStringify(ts)

\* JSON.parse of a stored text: throws, or yields an array or another value
JsonParse(raw) ==
  CASE raw.kind \in {"garbage", "empty"} -> [kind |-> "throw", val |-> <<>>]
    [] raw.kind = "array"                 -> [kind |-> "array", val |-> raw.val]
    [] OTHER                              -> [kind |-> "other", val |-> raw.val]

\* getAll without the Array.isArray test: a parsed value that is not an
\* array is handed on as the single element of the result
GetAll_WrapsNonArray(raw) ==
  IF raw.kind \in {"absent", "empty"} THEN <<>>
  ELSE LET parsed == JsonParse(raw)
       IN  IF parsed.kind = "throw" THEN <<>>
           ELSE IF parsed.kind = "array" THEN parsed.val ELSE <<parsed.val>>

\* getAll: the value returned for the raw item read
GetAll(raw) ==
  IF raw.kind \in {"absent", "empty"} THEN <<>>
  ELSE LET parsed == JsonParse(raw)
       IN  IF parsed.kind = "throw" THEN <<>>
           ELSE IF parsed.kind = "array" THEN parsed.val ELSE <<>>

\* readAll on the current store
ReadAll == GetAll(blob)

\* --------------------------------------------------------- id generation
CryptoEnvs == {"present", "missing", "throwing"}

HexId(n)        == [gen |-> "hex", n |-> n, ts |-> 0]
FallbackId(n, now) == [gen |-> "b36", n |-> n, ts |-> now]

\* An id no create ever assigns
GhostId == [gen |-> "none", n |-> 0, ts |-> 0]

\* cryptoRandomId: env is the runtime, draw the next value of the random
\* source.  Without getRandomValues the optional call is skipped, nothing
\* throws and the zero-filled buffer is rendered.
CryptoRandomId(env, draw, now) ==
  CASE env = "present"  -> HexId(draw)
    [] env = "missing"  -> HexId(0)
    [] env = "throwing" -> FallbackId(draw, now)

\* ------------------------------------------------------ store operations
\* create: the task built from the input
NewTask(input, id, now) ==
  [id          |-> id,
   title       |-> input["title"],
   description |-> Description(input),
   createdAt   |-> now,
   updatedAt   |-> now,
   done        |-> IF "done" \in DOMAIN input THEN input["done"] ELSE FALSE]

\* create that appends: [...tasks, newTask]
CreateUpdated_Appends(newTask, ts) == ts \o <<newTask>>

\* create: updated = [newTask, ...tasks]
CreateUpdated(newTask, ts) == <<newTask>> \o ts

\* update with the spreads swapped: {...partial, ...t, updatedAt: now}
Merge_TaskWins(t, partial, now) ==
  [k \in DOMAIN t \cup DOMAIN partial \cup {"updatedAt"} |->
     IF k = "updatedAt" THEN now
     ELSE IF k \in DOMAIN t THEN t[k] ELSE partial[k]]

\* update with the stamp before the spread: {...t, updatedAt: now, ...partial}
Merge_PartialStamp(t, partial, now) ==
  [k \in DOMAIN t \cup DOMAIN partial \cup {"updatedAt"} |->
     IF k \in DOMAIN partial THEN partial[k]
     ELSE IF k = "updatedAt" THEN now ELSE t[k]]

\* update with the stamp first: {updatedAt: now, ...t, ...partial}
Merge_StampFirst(t, partial, now) ==
  [k \in DOMAIN t \cup DOMAIN partial \cup {"updatedAt"} |->
     IF k \in DOMAIN partial THEN partial[k]
     ELSE IF k \in DOMAIN t THEN t[k] ELSE now]

\* update: {...t, ...partial, updatedAt: now}
Merge(t, partial, now) ==
  [k \in DOMAIN t \cup DOMAIN partial \cup {"updatedAt"} |->
     IF k = "updatedAt" THEN now
     ELSE IF k \in DOMAIN partial THEN partial[k] ELSE t[k]]

\* update whose map merges the partial into every task
UpdateMap_EveryTask(ts, id, partial, now) ==
  [i \in 1..Len(ts) |-> Merge(ts[i], partial, now)]

\* update that moves the updated tasks to the front
UpdateMap_MovesToFront(ts, id, partial, now) ==
  LET Hit(t)  == t["id"] = id
      Miss(t) == t["id"] # id
      hits    == SelectSeq(ts, Hit)
  IN  [i \in 1..Len(hits) |-> Merge(hits[i], partial, now)]
        \o SelectSeq(ts, Miss)

\* update: tasks.map(...)
UpdateMap(ts, id, partial, now) ==
  [i \in 1..Len(ts) |->
     IF ts[i]["id"] = id THEN Merge(ts[i], partial, now) ELSE ts[i]]

\* update whose callback never assigns updatedTask
UpdatedTask_NeverSet(ts, id, partial, now) == <<>>

\* update: updatedTask after the map, <<>> for undefined; the callback
\* assigns it at every match, so the last match stays
UpdatedTask(ts, id, partial, now) ==
  LET hits == {i \in 1..Len(ts) : ts[i]["id"] = id}
  IN  IF hits = {} THEN <<>>
      ELSE <<Merge(ts[CHOOSE i \in hits : \A j \in hits : j <= i], partial, now)>>

\* Array.prototype.find that returns the last match
Find_Last(ts, id) ==
  LET hits == {i \in 1..Len(ts) : ts[i]["id"] = id}
  IN  IF hits = {} THEN <<>>
      ELSE <<ts[CHOOSE i \in hits : \A j \in hits : j <= i]>>

\* tasks.find(t => t.id === id): the scan stops at the first match;
\* <<>> stands for undefined
RECURSIVE Find(_, _)
Find(ts, id) ==
  IF ts = <<>> THEN <<>>
  ELSE IF Head(ts)["id"] = id THEN <<Head(ts)>>
  ELSE Find(Tail(ts), id)

\* Array.prototype.filter with the predicate t => t.id !== id, as remove
\* and removeTask use it
RECURSIVE FilterOutId(_, _)
FilterOutId(ts, id) ==
  IF ts = <<>> THEN <<>>
  ELSE IF Head(ts)["id"] # id THEN <<Head(ts)>> \o FilterOutId(Tail(ts), id)
       ELSE FilterOutId(Tail(ts), id)

\* remove by position: splice(findIndex(...), 1), which drops the last task
\* when findIndex returns -1
RemoveFilter_Splice(ts, id) ==
  IF \E k \in 1..Len(ts) : ts[k]["id"] = id
  THEN FilterOutId(ts, id)
  ELSE SubSeq(ts, 1, Len(ts) - 1)

\* remove: filtered = tasks.filter(t => t.id !== id)
RemoveFilter(ts, id) == FilterOutId(ts, id)

\* clearAll that removes another key
ClearAll_OtherKey(b) == b

\* clearAll that saves an empty collection: saveAll([])
ClearAll_SavesEmpty(b) == SaveAll(<<>>)

\* clearAll: the value under the key after removeItem
ClearAll(b) == Absent

\* --------------------------------------------------------------- session
\* stats: tasks.filter(t => t.done)
RECURSIVE DoneFilter(_)
DoneFilter(ts) ==
  IF ts = <<>> THEN <<>>
  ELSE IF Head(ts)["done"] THEN <<Head(ts)>> \o DoneFilter(Tail(ts))
       ELSE DoneFilter(Tail(ts))

\* stats whose done counts the tasks that are not done
Stats_CountsPending(ts) ==
  LET total == Len(ts)
      done  == Len(ts) - Len(DoneFilter(ts))
  IN  [total |-> total, done |-> done, pending |-> total - done]

\* stats: total, done, pending of a mirror
Stats(ts) ==
  LET total == Len(ts)
      done  == Len(DoneFilter(ts))
  IN  [total |-> total, done |-> done, pending |-> total - done]

\* What a rejected storage call carries: an Error with a message, an Error
\* whose message is the empty string, or a value without a message
ErrorValues == {"E_MESSAGE", "E_EMPTY", "E_NOMESSAGE"}

\* load: e?.message ?? 'Erro ao carregar'
ErrorText(e) ==
  CASE e = "E_MESSAGE" -> "storage failure"
    [] e = "E_EMPTY"   -> ""
    [] OTHER           -> "Erro ao carregar"

\* Inputs of createTask
CreateInputs ==
  { [title |-> "a", description |-> Undefined],
    [title |-> "b", description |-> "d", done |-> TRUE] }

\* Partials of updateTask: the toggle, the form, a partial with updatedAt
Partials ==
  { [done |-> TRUE],
    [title |-> "c", description |-> Undefined, done |-> FALSE],
    [updatedAt |-> 0] }

\* What overlapping calls are issued with
OverlapInputs   == { [title |-> "a", description |-> Undefined] }
OverlapPartials == { [done |-> TRUE] }

\* A call in flight; reads and writes count the getItem and setItem calls
\* it has made; the arg of a remove issued right after the createTask
\* of its id resolved holds the collection that create read; at is the
\* clock reading an update took; live tells whether the id of an update
\* was in liveIds when the call was issued and has been since; shown holds
\* task.done of the task a toggleDone was called with
Call(op, id, arg) ==
  [op |-> op, pc |-> IF op = "clear" THEN "rm" ELSE "get", id |-> id,
   arg |-> arg, raw |-> Absent, read |-> <<>>, out |-> <<>>, ret |-> <<>>,
   err |-> "E_NOMESSAGE", live |-> FALSE, at |-> 0, reads |-> 0,
   writes |-> 0, shown |-> <<>>]

\* The calls in flight once a removeTask of one of ids or a clear is issued
NotLive(cs, ids) ==
  [i \in 1..Len(cs) |->
     IF cs[i].id \in ids THEN [cs[i] EXCEPT !.live = FALSE] ELSE cs[i]]

\* A removeTask of the id or a clear is in flight
Erasing(id) ==
  \E j \in 1..Len(calls) :
    calls[j].op = "clear" \/ (calls[j].op = "remove" /\ calls[j].id = id)

RemoveAt(s, i) == SubSeq(s, 1, i - 1) \o SubSeq(s, i + 1, Len(s))

\* ids an update or a remove can be called with
TargetIds == everIds \cup {GhostId}

PendingCreates == Cardinality({i \in 1..Len(calls) : calls[i].op = "create" /\ calls[i].pc = "get"})

\* No continuation is pending. The continuation of an await is a promise
\* reaction: it runs as soon as the store call settles, before any other
\* callback or event
Settled == \A i \in 1..Len(calls) : calls[i].pc \notin {"ret", "fail"}

CanIssue ==
  /\ mounted
  /\ Settled
  /\ nOps < budget
  /\ Len(calls) < (IF awaited THEN 1 ELSE MaxInFlight)

\* ------------------------------------------------------------------ Init
\* useState initial values, before the mount effect
InitHook ==
  /\ clock = 0
  /\ cryptoEnv \in CryptoEnvs
  /\ nextRand = 0
  /\ mounted = FALSE
  /\ tasks = <<>>
  /\ loading = TRUE
  /\ error = NoError
  /\ stats = Stats(<<>>)
  /\ calls = <<>>
  /\ nOps = 0
  /\ nFail = 0
  /\ everIds = {}
  /\ liveIds = {}
  /\ lastCreate = <<>>

\* The session starts on one of the values the key can hold
InitSession == blob \in InitialBlobs /\ InitHook

\* Every call is awaited; the key may also hold a foreign array; one
\* operation fewer
InitForeign ==
  /\ blob \in InitialBlobs \cup {ForeignArray}
  /\ InitHook
  /\ awaited = TRUE
  /\ budget = MaxOps - 1

\* A task an earlier session created and saved
StoredTask(env) ==
  NewTask([title |-> "a", description |-> Undefined],
          CryptoRandomId(env, MaxCreates + 1, 0), 0)

\* Calls may overlap; the key holds the task of an earlier session; the
\* runtime has crypto or lacks it
InitToggle ==
  /\ InitHook
  /\ cryptoEnv \in {"present", "missing"}
  /\ blob = SaveAll(<<StoredTask(cryptoEnv)>>)
  /\ awaited = FALSE
  /\ budget = MaxOverlapOps

\* Every call is awaited to completion before the next one is issued
Init == InitSession /\ awaited = TRUE /\ budget = MaxOps

\* Calls may be issued while earlier ones are still in flight; the key
\* starts absent
InitOverlap ==
  InitSession /\ awaited = FALSE /\ budget = MaxOverlapOps /\ blob = Absent

\* Overlapping calls, one more operation
InitOverlapLong ==
  InitSession /\ awaited = FALSE /\ budget = MaxOverlapOps + 1 /\ blob = Absent

\* Either discipline
InitAny == Init \/ InitOverlap

\* Either discipline, one more operation when calls overlap
InitAnyLong == Init \/ InitOverlapLong

\* ----------------------------------------------------------- environment
\* The clock advances
Tick ==
  /\ clock < MaxClock
  /\ Settled
  /\ clock' = clock + 1
  /\ UNCHANGED <<blob, nextRand, mounted, tasks, loading, error, stats,
                 calls, nOps, nFail, everIds, liveIds, fixed,
                   lastCreate>>

\* A pending storage call rejects
StorageRejects ==
  \E i \in 1..Len(calls), e \in ErrorValues :
    /\ calls[i].pc \in {"get", "set", "rm"}
    /\ Settled
    /\ nFail < MaxFails
    /\ nFail' = nFail + 1
    /\ calls' = [calls EXCEPT ![i] = [@ EXCEPT !.pc = "fail", !.err = e]]
    /\ UNCHANGED <<blob, clock, nextRand, mounted, tasks, loading, error,
                   stats, nOps, everIds, liveIds, fixed,
                   lastCreate>>

\* ------------------------------------------------------------------ load
\* load up to the await: setLoading(true); setError(null); readAll()
StartLoad ==
  /\ loading' = TRUE
  /\ error' = NoError
  /\ calls' = Append(calls, Call("load", GhostId, <<>>))

\* useEffect(() => { load() }, [load])
Mount ==
  /\ ~mounted
  /\ mounted' = TRUE
  /\ StartLoad
  /\ UNCHANGED <<blob, clock, nextRand, tasks, stats, nOps, nFail, everIds,
                 liveIds, fixed,
                   lastCreate>>

\* load() called by the presentation layer
IssueLoad ==
  /\ CanIssue
  /\ nOps' = nOps + 1
  /\ StartLoad
  /\ lastCreate' = <<>>
  /\ UNCHANGED <<blob, clock, nextRand, mounted, tasks, stats, nFail,
                 everIds, liveIds, fixed>>

\* getItem resolves inside readAll
LoadRead ==
  \E i \in 1..Len(calls) :
    /\ calls[i].op = "load" /\ calls[i].pc = "get"
    /\ Settled
    /\ calls' = [calls EXCEPT ![i] =
                   [@ EXCEPT !.pc = "ret", !.raw = blob, !.reads = @ + 1, !.read = GetAll(blob)]]
    /\ UNCHANGED <<blob, clock, nextRand, mounted, tasks, loading, error,
                   stats, nOps, nFail, everIds, liveIds, fixed,
                   lastCreate>>

\* load that keeps the previous mirror: setTasks(prev => [...data, ...prev])
MirrorLoad_KeepsPrev(data, prev) == data \o prev

\* load: setTasks(data)
MirrorLoad(data, prev) == data

\* setTasks(data); finally setLoading(false)
LoadReturn ==
  \E i \in 1..Len(calls) :
    /\ calls[i].op = "load" /\ calls[i].pc = "ret"
    /\ tasks' = MirrorLoad(calls[i].read, tasks)
    /\ stats' = Stats(tasks')
    /\ everIds' = everIds \cup Ids(tasks')
    /\ loading' = FALSE
    /\ calls' = RemoveAt(calls, i)
    /\ UNCHANGED <<blob, clock, nextRand, mounted, error, nOps, nFail,
                   liveIds, fixed,
                   lastCreate>>

\* load without the finally block: a failed load leaves loading as it is
LoadCatch_NoFinally ==
  \E i \in 1..Len(calls) :
    /\ calls[i].op = "load" /\ calls[i].pc = "fail"
    /\ error' = ErrorText(calls[i].err)
    /\ calls' = RemoveAt(calls, i)
    /\ UNCHANGED <<blob, clock, nextRand, mounted, tasks, loading, stats,
                   nOps, nFail, everIds, liveIds, fixed, lastCreate>>

\* catch: setError(...); finally setLoading(false)
LoadCatch ==
  \E i \in 1..Len(calls) :
    /\ calls[i].op = "load" /\ calls[i].pc = "fail"
    /\ error' = ErrorText(calls[i].err)
    /\ loading' = FALSE
    /\ calls' = RemoveAt(calls, i)
    /\ UNCHANGED <<blob, clock, nextRand, mounted, tasks, stats, nOps, nFail,
                   everIds, liveIds, fixed,
                   lastCreate>>

\* ---------------------------------------------------------------- create
IssueCreate ==
  \E input \in (IF awaited THEN CreateInputs ELSE OverlapInputs) :
    /\ CanIssue
    /\ nextRand + PendingCreates < MaxCreates
    /\ nOps' = nOps + 1
    /\ calls' = Append(calls, Call("create", GhostId, input))
    /\ lastCreate' = <<>>
    /\ UNCHANGED <<blob, clock, nextRand, mounted, tasks, loading, error,
                   stats, nFail, everIds, liveIds, fixed>>

\* create from the resolution of getItem to the call of setItem
CreateRead ==
  \E i \in 1..Len(calls) :
    /\ calls[i].op = "create" /\ calls[i].pc = "get"
    /\ Settled
    /\ LET read    == GetAll(blob)
           newTask == NewTask(calls[i].arg,
                              CryptoRandomId(cryptoEnv, nextRand + 1, clock),
                              clock)
       IN  calls' = [calls EXCEPT ![i] =
                       [@ EXCEPT !.pc = "set", !.raw = blob, !.reads = @ + 1, !.read = read,
                                 !.ret = <<newTask>>,
                                 !.out = CreateUpdated(newTask, read)]]
    /\ nextRand' = nextRand + 1
    /\ UNCHANGED <<blob, clock, mounted, tasks, loading, error, stats, nOps,
                   nFail, everIds, liveIds, fixed,
                   lastCreate>>

\* create that reads the key again before its write and prepends to that
CreateWrite_Merging ==
  \E i \in 1..Len(calls) :
    /\ calls[i].op = "create" /\ calls[i].pc = "set"
    /\ Settled
    /\ blob' = SaveAll(CreateUpdated(calls[i].ret[1], GetAll(blob)))
    /\ calls' = [calls EXCEPT ![i] =
                   [@ EXCEPT !.pc = "ret", !.reads = @ + 1, !.writes = @ + 1]]
    /\ UNCHANGED <<clock, nextRand, mounted, tasks, loading, error, stats,
                   nOps, nFail, everIds, liveIds, fixed,
                   lastCreate>>

\* create: setItem resolves, create returns newTask
CreateWrite ==
  \E i \in 1..Len(calls) :
    /\ calls[i].op = "create" /\ calls[i].pc = "set"
    /\ Settled
    /\ blob' = SaveAll(calls[i].out)
    /\ calls' = [calls EXCEPT ![i] = [@ EXCEPT !.pc = "ret", !.writes = @ + 1]]
    /\ UNCHANGED <<clock, nextRand, mounted, tasks, loading, error, stats,
                   nOps, nFail, everIds, liveIds, fixed,
                   lastCreate>>

\* createTask that appends: setTasks(prev => [...prev, t])
MirrorPrepend_Appends(t, prev) == prev \o <<t>>

\* createTask: setTasks(prev => [t, ...prev])
MirrorPrepend(t, prev) == <<t>> \o prev

\* createTask that does not await create: setTasks runs while the write is
\* still pending
CreateReturn_Optimistic ==
  \E i \in 1..Len(calls) :
    /\ calls[i].op = "create" /\ calls[i].pc \in {"set", "ret"}
    /\ tasks' = MirrorPrepend(calls[i].ret[1], tasks)
    /\ stats' = Stats(tasks')
    /\ everIds' = everIds \cup Ids(tasks')
    /\ liveIds' = IF Erasing(calls[i].ret[1]["id"]) THEN liveIds
                  ELSE liveIds \cup {calls[i].ret[1]["id"]}
    /\ calls' = RemoveAt(calls, i)
    /\ lastCreate' = <<[id |-> calls[i].ret[1]["id"], before |-> calls[i].read]>>
    /\ UNCHANGED <<blob, clock, nextRand, mounted, loading, error, nOps,
                   nFail, fixed>>

\* the continuation of createTask
CreateReturn ==
  \E i \in 1..Len(calls) :
    /\ calls[i].op = "create" /\ calls[i].pc = "ret"
    /\ tasks' = MirrorPrepend(calls[i].ret[1], tasks)
    /\ stats' = Stats(tasks')
    /\ everIds' = everIds \cup Ids(tasks')
    /\ liveIds' = IF Erasing(calls[i].ret[1]["id"]) THEN liveIds
                  ELSE liveIds \cup {calls[i].ret[1]["id"]}
    /\ calls' = RemoveAt(calls, i)
    /\ lastCreate' = <<[id |-> calls[i].ret[1]["id"], before |-> calls[i].read]>>
    /\ UNCHANGED <<blob, clock, nextRand, mounted, loading, error, nOps,
                   nFail, fixed>>

\* ---------------------------------------------------------------- update
IssueUpdate ==
  \E id \in TargetIds,
     partial \in (IF awaited THEN Partials ELSE OverlapPartials) :
    /\ CanIssue
    /\ nOps' = nOps + 1
    /\ calls' = Append(calls, [Call("update", id, partial)
                                 EXCEPT !.live = id \in liveIds])
    /\ lastCreate' = <<>>
    /\ UNCHANGED <<blob, clock, nextRand, mounted, tasks, loading, error,
                   stats, nFail, everIds, liveIds, fixed>>

\* toggleDone that sends the value the task has: { done: task.done }
IssueToggleDone_NoNegation ==
  \E k \in 1..Len(tasks) :
    /\ CanIssue
    /\ nOps' = nOps + 1
    /\ calls' = Append(calls,
                  [Call("update", tasks[k]["id"], [done |-> tasks[k]["done"]])
                     EXCEPT !.live = tasks[k]["id"] \in liveIds,
                            !.shown = <<tasks[k]["done"]>>])
    /\ lastCreate' = <<>>
    /\ UNCHANGED <<blob, clock, nextRand, mounted, tasks, loading, error,
                   stats, nFail, everIds, liveIds, fixed>>

\* toggleDone(task) = updateTask(task.id, { done: !task.done }), task being
\* an item of the list rendered from the mirror; shown keeps task.done
IssueToggleDone ==
  \E k \in 1..Len(tasks) :
    /\ CanIssue
    /\ nOps' = nOps + 1
    /\ calls' = Append(calls,
                  [Call("update", tasks[k]["id"], [done |-> ~tasks[k]["done"]])
                     EXCEPT !.live = tasks[k]["id"] \in liveIds,
                            !.shown = <<tasks[k]["done"]>>])
    /\ lastCreate' = <<>>
    /\ UNCHANGED <<blob, clock, nextRand, mounted, tasks, loading, error,
                   stats, nFail, everIds, liveIds, fixed>>

\* update from the resolution of getItem to the call of setItem
UpdateRead ==
  \E i \in 1..Len(calls) :
    /\ calls[i].op = "update" /\ calls[i].pc = "get"
    /\ Settled
    /\ LET read == GetAll(blob)
           c    == calls[i]
       IN  calls' = [calls EXCEPT ![i] =
                       [@ EXCEPT !.pc = "set", !.raw = blob, !.reads = @ + 1, !.read = read,
                                 !.live = c.live /\ c.id \in liveIds,
                                 !.at = clock,
                                 !.ret = UpdatedTask(read, c.id, c.arg, clock),
                                 !.out = UpdateMap(read, c.id, c.arg, clock)]]
    /\ UNCHANGED <<blob, clock, nextRand, mounted, tasks, loading, error,
                   stats, nOps, nFail, everIds, liveIds, fixed,
                   lastCreate>>

\* update that saves only when a task matched
UpdateWrite_SkipsUnchanged ==
  \E i \in 1..Len(calls) :
    /\ calls[i].op = "update" /\ calls[i].pc = "set"
    /\ Settled
    /\ blob' = IF calls[i].ret = <<>> THEN blob ELSE SaveAll(calls[i].out)
    /\ calls' = [calls EXCEPT ![i] = [@ EXCEPT !.pc = "ret", !.writes = @ + 1]]
    /\ UNCHANGED <<clock, nextRand, mounted, tasks, loading, error, stats,
                   nOps, nFail, everIds, liveIds, fixed,
                   lastCreate>>

\* update: setItem resolves, update returns updatedTask
UpdateWrite ==
  \E i \in 1..Len(calls) :
    /\ calls[i].op = "update" /\ calls[i].pc = "set"
    /\ Settled
    /\ blob' = SaveAll(calls[i].out)
    /\ calls' = [calls EXCEPT ![i] = [@ EXCEPT !.pc = "ret", !.writes = @ + 1]]
    /\ UNCHANGED <<clock, nextRand, mounted, tasks, loading, error, stats,
                   nOps, nFail, everIds, liveIds, fixed,
                   lastCreate>>

\* updateTask: prev.map(p => (p.id === id ? t : p))
MirrorReplace(ts, id, t) ==
  [i \in 1..Len(ts) |-> IF ts[i]["id"] = id THEN t ELSE ts[i]]

\* removeTask that drops the newest entry: prev.slice(1)
MirrorRemove_Pops(ts, id) == IF ts = <<>> THEN <<>> ELSE Tail(ts)

\* removeTask: prev.filter(p => p.id !== id)
MirrorRemove(ts, id) == FilterOutId(ts, id)

\* updateTask that drops the entry when the store returns undefined
UpdateReturn_DropsMissing ==
  \E i \in 1..Len(calls) :
    /\ calls[i].op = "update" /\ calls[i].pc = "ret"
    /\ tasks' = IF calls[i].ret # <<>>
                THEN MirrorReplace(tasks, calls[i].id, calls[i].ret[1])
                ELSE MirrorRemove(tasks, calls[i].id)
    /\ stats' = Stats(tasks')
    /\ everIds' = everIds \cup Ids(tasks')
    /\ calls' = RemoveAt(calls, i)
    /\ UNCHANGED <<blob, clock, nextRand, mounted, loading, error, nOps,
                   nFail, liveIds, fixed,
                   lastCreate>>

\* if (t) setTasks(...)
UpdateReturn ==
  \E i \in 1..Len(calls) :
    /\ calls[i].op = "update" /\ calls[i].pc = "ret"
    /\ tasks' = IF calls[i].ret # <<>>
                THEN MirrorReplace(tasks, calls[i].id, calls[i].ret[1])
                ELSE tasks
    /\ stats' = Stats(tasks')
    /\ everIds' = everIds \cup Ids(tasks')
    /\ calls' = RemoveAt(calls, i)
    /\ UNCHANGED <<blob, clock, nextRand, mounted, loading, error, nOps,
                   nFail, liveIds, fixed,
                   lastCreate>>

\* ---------------------------------------------------------------- remove
IssueRemove ==
  \E id \in TargetIds :
    /\ CanIssue
    /\ nOps' = nOps + 1
    /\ liveIds' = liveIds \ {id}
    /\ calls' = Append(NotLive(calls, {id}),
                       Call("remove", id,
                            IF lastCreate # <<>> /\ lastCreate[1].id = id
                            THEN <<lastCreate[1].before>> ELSE <<>>))
    /\ lastCreate' = <<>>
    /\ UNCHANGED <<blob, clock, nextRand, mounted, tasks, loading, error,
                   stats, nFail, everIds, fixed>>

\* remove from the resolution of getItem to the call of setItem
RemoveRead ==
  \E i \in 1..Len(calls) :
    /\ calls[i].op = "remove" /\ calls[i].pc = "get"
    /\ Settled
    /\ LET read == GetAll(blob)
       IN  calls' = [calls EXCEPT ![i] =
                       [@ EXCEPT !.pc = "set", !.raw = blob, !.reads = @ + 1, !.read = read,
                                 !.out = RemoveFilter(read, calls[i].id)]]
    /\ UNCHANGED <<blob, clock, nextRand, mounted, tasks, loading, error,
                   stats, nOps, nFail, everIds, liveIds, fixed,
                   lastCreate>>

\* remove: setItem resolves, remove returns
RemoveWrite ==
  \E i \in 1..Len(calls) :
    /\ calls[i].op = "remove" /\ calls[i].pc = "set"
    /\ Settled
    /\ blob' = SaveAll(calls[i].out)
    /\ calls' = [calls EXCEPT ![i] = [@ EXCEPT !.pc = "ret", !.writes = @ + 1]]
    /\ UNCHANGED <<clock, nextRand, mounted, tasks, loading, error, stats,
                   nOps, nFail, everIds, liveIds, fixed,
                   lastCreate>>

\* setTasks(prev => prev.filter(p => p.id !== id))
RemoveReturn ==
  \E i \in 1..Len(calls) :
    /\ calls[i].op = "remove" /\ calls[i].pc = "ret"
    /\ tasks' = MirrorRemove(tasks, calls[i].id)
    /\ stats' = Stats(tasks')
    /\ calls' = RemoveAt(calls, i)
    /\ UNCHANGED <<blob, clock, nextRand, mounted, loading, error, nOps,
                   nFail, everIds, liveIds, fixed,
                   lastCreate>>

\* ----------------------------------------------------------------- clear
IssueClear ==
  /\ CanIssue
  /\ nOps' = nOps + 1
  /\ liveIds' = {}
  /\ calls' = Append(NotLive(calls, liveIds), Call("clear", GhostId, <<>>))
  /\ lastCreate' = <<>>
  /\ UNCHANGED <<blob, clock, nextRand, mounted, tasks, loading, error,
                 stats, nFail, everIds, fixed>>

\* clearAll that saves an empty collection with setItem
ClearRemoveItem_ViaSetItem ==
  \E i \in 1..Len(calls) :
    /\ calls[i].op = "clear" /\ calls[i].pc = "rm"
    /\ Settled
    /\ blob' = SaveAll(<<>>)
    /\ calls' = [calls EXCEPT ![i] =
                   [@ EXCEPT !.pc = "ret", !.raw = blob, !.writes = @ + 1]]
    /\ UNCHANGED <<clock, nextRand, mounted, tasks, loading, error, stats,
                   nOps, nFail, everIds, liveIds, fixed, lastCreate>>

\* clearAll: removeItem resolves
ClearRemoveItem ==
  \E i \in 1..Len(calls) :
    /\ calls[i].op = "clear" /\ calls[i].pc = "rm"
    /\ Settled
    /\ blob' = ClearAll(blob)
    /\ calls' = [calls EXCEPT ![i] = [@ EXCEPT !.pc = "ret", !.raw = blob]]
    /\ UNCHANGED <<clock, nextRand, mounted, tasks, loading, error, stats,
                   nOps, nFail, everIds, liveIds, fixed,
                   lastCreate>>

\* setTasks([])
ClearReturn ==
  \E i \in 1..Len(calls) :
    /\ calls[i].op = "clear" /\ calls[i].pc = "ret"
    /\ tasks' = <<>>
    /\ stats' = Stats(tasks')
    /\ calls' = RemoveAt(calls, i)
    /\ UNCHANGED <<blob, clock, nextRand, mounted, loading, error, nOps,
                   nFail, everIds, liveIds, fixed,
                   lastCreate>>

\* -------------------------------------------------------------- readById
\* readById(id) called on the store
IssueReadById ==
  \E id \in TargetIds :
    /\ CanIssue
    /\ nOps' = nOps + 1
    /\ calls' = Append(calls, Call("readById", id, <<>>))
    /\ lastCreate' = <<>>
    /\ UNCHANGED <<blob, clock, nextRand, mounted, tasks, loading, error,
                   stats, nFail, everIds, liveIds, fixed>>

\* readById: getItem resolves, readById returns tasks.find(...)
ReadByIdRead ==
  \E i \in 1..Len(calls) :
    /\ calls[i].op = "readById" /\ calls[i].pc = "get"
    /\ Settled
    /\ LET read == GetAll(blob)
       IN  calls' = [calls EXCEPT ![i] =
                       [@ EXCEPT !.pc = "ret", !.raw = blob,
                                 !.reads = @ + 1, !.read = read,
                                 !.ret = Find(read, calls[i].id)]]
    /\ UNCHANGED <<blob, clock, nextRand, mounted, tasks, loading, error,
                   stats, nOps, nFail, everIds, liveIds, fixed,
                   lastCreate>>

\* The caller receives the task or undefined; the session keeps no copy
ReadByIdReturn ==
  \E i \in 1..Len(calls) :
    /\ calls[i].op = "readById" /\ calls[i].pc = "ret"
    /\ calls' = RemoveAt(calls, i)
    /\ UNCHANGED <<blob, clock, nextRand, mounted, tasks, loading, error,
                   stats, nOps, nFail, everIds, liveIds, fixed,
                   lastCreate>>

\* A rejected store call that still runs the mirror update of clear
MutationRejects_StillClears ==
  \E i \in 1..Len(calls) :
    /\ calls[i].op # "load" /\ calls[i].pc = "fail"
    /\ tasks' = IF calls[i].op = "clear" THEN <<>> ELSE tasks
    /\ stats' = Stats(tasks')
    /\ calls' = RemoveAt(calls, i)
    /\ UNCHANGED <<blob, clock, nextRand, mounted, loading, error, nOps,
                   nFail, everIds, liveIds, fixed,
                   lastCreate>>

\* createTask, updateTask, removeTask and clear with a catch that reports
\* the failure through error
MutationRejects_SetsError ==
  \E i \in 1..Len(calls) :
    /\ calls[i].op # "load" /\ calls[i].pc = "fail"
    /\ error' = ErrorText(calls[i].err)
    /\ calls' = RemoveAt(calls, i)
    /\ UNCHANGED <<blob, clock, nextRand, mounted, tasks, loading, stats,
                   nOps, nFail, everIds, liveIds, fixed, lastCreate>>

\* A rejected store call rejects createTask, updateTask, removeTask or
\* clear (or readById) to its caller; no setTasks runs
MutationRejects ==
  \E i \in 1..Len(calls) :
    /\ calls[i].op # "load" /\ calls[i].pc = "fail"
    /\ calls' = RemoveAt(calls, i)
    /\ UNCHANGED <<blob, clock, nextRand, mounted, tasks, loading, error,
                   stats, nOps, nFail, everIds, liveIds, fixed,
                   lastCreate>>

Next ==
  \/ Tick
  \/ StorageRejects
  \/ Mount
  \/ IssueLoad
  \/ LoadRead
  \/ LoadReturn
  \/ LoadCatch
  \/ IssueCreate
  \/ CreateRead
  \/ CreateWrite
  \/ CreateReturn
  \/ IssueUpdate
  \/ UpdateRead
  \/ UpdateWrite
  \/ UpdateReturn
  \/ IssueRemove
  \/ RemoveRead
  \/ RemoveWrite
  \/ RemoveReturn
  \/ IssueClear
  \/ ClearRemoveItem
  \/ ClearReturn
  \/ MutationRejects

\* The session, and a caller of the store's readById beside it: useTasks
\* itself never calls readById
NextStore ==
  \/ Next
  \/ IssueReadById
  \/ ReadByIdRead
  \/ ReadByIdReturn

\* every call awaited
Spec == Init /\ [][Next]_vars

\* overlapping calls
SpecOverlap == InitOverlap /\ [][Next]_vars

\* The session with the list's toggle among its callers
NextApp ==
  \/ Next
  \/ IssueToggleDone

\* overlapping calls on the task of an earlier session, toggleDone among
\* them
SpecToggle == InitToggle /\ [][NextApp]_vars

\* every call awaited, readById among the calls
SpecStore == Init /\ [][NextStore]_vars

\* every call awaited, the key holding a foreign array or not
SpecForeign == InitForeign /\ [][Next]_vars

\* Every call is awaited; one operation fewer
InitShort == InitSession /\ awaited = TRUE /\ budget = MaxOps - 1

\* every call awaited; the mount effect runs, the storage call of a load
\* resolves or rejects, and the continuation of a load runs
SpecFair ==
  /\ InitShort /\ [][Next]_vars
  /\ WF_vars(Mount)
  /\ WF_vars(LoadRead \/ StorageRejects)
  /\ WF_vars(LoadReturn)
  /\ WF_vars(LoadCatch)

\* both disciplines
SpecAny == InitAny /\ [][Next]_vars

\* both disciplines, one more operation when calls overlap
SpecAnyLong == InitAnyLong /\ [][Next]_vars

\* ================================================================ claims
\* The calls whose store function has returned and whose session
\* continuation has not run yet
Returned(op) == {i \in 1..Len(calls) : calls[i].op = op /\ calls[i].pc = "ret"}

\* The positions of the tasks with the given id
Hits(ts, id) == {k \in 1..Len(ts) : ts[k]["id"] = id}

\* C1: once the initial load has completed and no call is in flight, with
\* every call awaited before the next, the mirror equals readAll(): same
\* tasks, same order, same field values.
C1_MirrorEqualsReadAll ==
  (mounted /\ ~loading /\ calls = <<>>)
     => FieldValuesOf(tasks) = FieldValuesOf(ReadAll)

\* C2: the id of the task create returns differs from the id of every task
\* of the collection create read, in every runtime.
C2_CreateIdIsNew ==
  \A i \in 1..Len(calls) :
    (calls[i].op = "create" /\ calls[i].ret # <<>>)
       => calls[i].ret[1]["id"] \notin Ids(calls[i].read)

\* C3: after create returns, readAll() is the new task followed by the
\* collection as it was, and the new task's createdAt equals its updatedAt.
C3_CreateThenReadAll ==
  \A i \in Returned("create") :
    /\ Len(ReadAll) = Len(calls[i].read) + 1
    /\ FieldValues(ReadAll[1]) = FieldValues(calls[i].ret[1])
    /\ Tail(ReadAll) = calls[i].read
    /\ ReadAll[1]["createdAt"] = ReadAll[1]["updatedAt"]

C3_Witness ==
  \E i \in Returned("create") :
    /\ calls[i].read # <<>>
    /\ calls[i].raw.kind = "array"

\* C4: after update(id, {done: true}) of a present id, readAll() has the
\* tasks with that id at the positions they had, with done = true and the
\* id and createdAt they had.
C4_UpdateDoneThenReadAll ==
  \A i \in Returned("update") :
    LET c == calls[i] IN
    (c.arg = [done |-> TRUE] /\ c.id \in Ids(c.read)) =>
       /\ Len(ReadAll) = Len(c.read)
       /\ Hits(ReadAll, c.id) = Hits(c.read, c.id)
       /\ \A k \in Hits(c.read, c.id) :
            /\ ReadAll[k]["done"] = TRUE
            /\ ReadAll[k]["createdAt"] = c.read[k]["createdAt"]

C4_Witness ==
  \E i \in Returned("update") :
    LET c == calls[i] IN
    /\ c.arg = [done |-> TRUE]
    /\ Len(c.read) = 2
    /\ Hits(c.read, c.id) = {2}
    /\ c.read[2]["done"] = FALSE

\* C5 as stated: after a successful update of an existing task its
\* updatedAt is strictly later than the updatedAt it had.
C5_UpdatedAtStrictlyLater ==
  \A i \in Returned("update") :
    \A k \in Hits(calls[i].read, calls[i].id) :
      ReadAll[k]["updatedAt"] > calls[i].read[k]["updatedAt"]

\* C5 amended: after a successful update of an existing task its updatedAt
\* is not earlier than the updatedAt it had; it is equal when the clock has
\* not advanced since that one was set.
C5_UpdatedAtNotEarlier ==
  \A i \in Returned("update") :
    \A k \in Hits(calls[i].read, calls[i].id) :
      ReadAll[k]["updatedAt"] >= calls[i].read[k]["updatedAt"]

C5_Witness ==
  \E i \in Returned("update") :
    \E k \in Hits(calls[i].read, calls[i].id) :
      /\ "updatedAt" \in DOMAIN calls[i].arg
      /\ calls[i].read[k]["updatedAt"] > calls[i].arg["updatedAt"]

\* C6: update of an id no task has returns undefined and leaves readAll()
\* as it was, whatever the key held.
C6_UpdateUnknownId ==
  \A i \in Returned("update") :
    calls[i].id \notin Ids(calls[i].read) =>
       /\ calls[i].ret = <<>>
       /\ ReadAll = calls[i].read

C6_Witness ==
  \E i \in Returned("update") :
    /\ calls[i].id \notin Ids(calls[i].read)
    /\ calls[i].read # <<>>

\* C7: remove of an id no task has (any more) leaves readAll() as it was.
C7_RemoveIdempotent ==
  \A i \in Returned("remove") :
    calls[i].id \notin Ids(calls[i].read) => ReadAll = calls[i].read

C7_Witness ==
  \E i \in Returned("remove") :
    /\ calls[i].id \notin Ids(calls[i].read)
    /\ ReadAll = calls[i].read
    /\ calls[i].read # <<>>

\* C8: after clearAll returns, readAll() is empty, whatever the key held.
C8_ClearThenReadAll ==
  \A i \in Returned("clear") : ReadAll = <<>>

C8_Witness ==
  \E i \in Returned("clear") : GetAll(calls[i].raw) # <<>>

\* C9: stats.total is the length of the mirror, stats.done the number of
\* its entries with done = true, and total = done + pending.
C9_StatsInvariant ==
  /\ stats.total = Len(tasks)
  /\ stats.done = Cardinality({k \in 1..Len(tasks) : tasks[k]["done"] = TRUE})
  /\ stats.total = stats.done + stats.pending

C9_Witness ==
  /\ Len(tasks) = 2
  /\ stats.done = 1
  /\ stats.pending = 1

\* C10: readAll() returns the empty sequence when the key is absent, when
\* its text does not parse and when it parses to a value that is not an
\* array; the content of the key never makes it fail.
C10_ReadAllTolerant ==
  \A i \in 1..Len(calls) :
    calls[i].op = "load" =>
      /\ calls[i].pc = "ret" /\ calls[i].raw.kind # "array"
           => calls[i].read = <<>>
      /\ calls[i].pc = "fail" => nFail > 0

C10_Witness ==
  \E i \in Returned("load") : calls[i].raw.kind = "object"

\* The field values of the tasks of a sequence, as a set
FieldValueSet(ts) == {FieldValues(ts[k]) : k \in 1..Len(ts)}

\* What the continuation of a call hands to setTasks: the sequence load read,
\* the task create or update returned
Given(c) == IF c.op = "load" THEN c.read ELSE c.ret

\* C11: a createTask, updateTask, removeTask or clear whose store call
\* rejects never changes the mirror: the mirror changes only in the
\* continuation of a call whose store call succeeded, so after the rejection
\* it is what it was when the operation was issued.
C11_RejectionKeepsMirror ==
  [][tasks' # tasks =>
       \E i \in 1..Len(calls) :
          calls[i].pc = "ret" /\ calls' = RemoveAt(calls, i)]_vars

C11_Witness ==
  \E i \in 1..Len(calls) :
    /\ calls[i].pc = "fail"
    /\ tasks # <<>>
    /\ \/ calls[i].op = "clear"
       \/ calls[i].op = "remove" /\ calls[i].id \in Ids(tasks)

\* C12: the write of a create, an update or a remove leaves the key holding
\* that call's own copy of the collection, whatever was written since the
\* call read it; so of two calls that read the same collection, the change
\* of the one that writes first is lost.
C12_LastWriteWins ==
  [][\A i \in 1..Len(calls) :
       (/\ calls[i].pc = "set"
        /\ Len(calls') = Len(calls)
        /\ calls'[i].pc = "ret")
         => FieldValuesOf(GetAll(blob')) = FieldValuesOf(calls[i].out)]_vars

C12_Witness ==
  \E j \in 1..Len(calls), k \in 1..Len(tasks) :
    /\ calls[j].op \in {"create", "update", "remove"}
    /\ calls[j].pc = "ret"
    /\ tasks[k]["id"] \in liveIds
    /\ tasks[k]["id"] \notin Ids(calls[j].read)
    /\ tasks[k]["id"] \notin Ids(ReadAll)
    /\ FieldValuesOf(ReadAll) = FieldValuesOf(calls[j].out)

\* C13: a task enters the mirror only in the continuation of a call whose
\* store call has completed, and when a store call completes the tasks it
\* hands over are in the persisted collection; so every task of the mirror
\* was in the persisted collection at that or an earlier moment.
C13_MirrorFromPersisted ==
  [][/\ \A k \in 1..Len(tasks') :
          \/ FieldValues(tasks'[k]) \in FieldValueSet(tasks)
          \/ \E i \in 1..Len(calls) :
                /\ calls[i].pc = "ret"
                /\ calls' = RemoveAt(calls, i)
                /\ FieldValues(tasks'[k]) \in FieldValueSet(Given(calls[i]))
     /\ \A i \in 1..Len(calls) :
          (/\ Len(calls') = Len(calls)
           /\ calls[i].pc # "ret"
           /\ calls'[i].pc = "ret")
            => FieldValueSet(Given(calls'[i]))
                  \subseteq FieldValueSet(GetAll(blob'))]_vars

C13_Witness ==
  \E i \in Returned("create") :
    /\ calls[i].ret[1]["id"] \notin Ids(tasks)
    /\ calls[i].ret[1]["id"] \in Ids(ReadAll)
    /\ tasks # <<>>

\* C14: whenever no call is in flight, calls having overlapped or not, the
\* mirror equals readAll().
C14_QuiescentMirrorEqualsReadAll ==
  (mounted /\ Len(calls) = 0)
     => FieldValuesOf(tasks) = FieldValuesOf(ReadAll)

\* C15: no two tasks of the persisted collection have the same id.
C15_NoDuplicateIds ==
  \A k, l \in 1..Len(ReadAll) :
    k # l => ReadAll[k]["id"] # ReadAll[l]["id"]

\* Newest-created first: no task is created earlier than one after it
NewestFirst(ts) ==
  \A k, l \in 1..Len(ts) : k < l => ts[k]["createdAt"] >= ts[l]["createdAt"]

\* C16 as stated: the persisted collection and the mirror are both ordered
\* newest-created first in every state, calls having overlapped or not.
C16_BothNewestFirst == NewestFirst(ReadAll) /\ NewestFirst(tasks)

\* C16 amended: the persisted collection is ordered newest-created first in
\* every state, calls having overlapped or not; the mirror is when every
\* call is awaited before the next is issued.
C16_NewestFirstAwaited ==
  NewestFirst(ReadAll) /\ (awaited => NewestFirst(tasks))

C16_Witness ==
  /\ Len(ReadAll) >= 2
  /\ ReadAll[1]["createdAt"] > ReadAll[2]["createdAt"]
  /\ FieldValuesOf(tasks) = FieldValuesOf(ReadAll)
  /\ awaited

\* C17: every task of the persisted collection and of the mirror has
\* updatedAt >= createdAt, also after an update whose partial carries an
\* updatedAt of its own.
C17_UpdatedNotBeforeCreated ==
  /\ \A k \in 1..Len(ReadAll) :
        ReadAll[k]["updatedAt"] >= ReadAll[k]["createdAt"]
  /\ \A k \in 1..Len(tasks) :
        tasks[k]["updatedAt"] >= tasks[k]["createdAt"]

C17_Witness ==
  \E i \in Returned("update") :
    /\ "updatedAt" \in DOMAIN calls[i].arg
    /\ calls[i].ret # <<>>
    /\ calls[i].ret[1]["createdAt"] > calls[i].arg["updatedAt"]
    /\ FieldValues(calls[i].ret[1]) \in FieldValueSet(ReadAll)

\* C18: a load whose readAll() rejects sets error to a non-empty message
\* and loading to false and leaves the mirror as it is; error then changes
\* only when a load starts, which clears it.
C18_LoadFailure ==
  [][/\ \A i \in 1..Len(calls) :
          (/\ calls[i].op = "load"
           /\ calls[i].pc = "fail"
           /\ calls' = RemoveAt(calls, i))
            => /\ error' \notin {NoError, ""}
               /\ loading' = FALSE
               /\ tasks' = tasks
     /\ (error # NoError /\ error' # error)
          => /\ Len(calls') = Len(calls) + 1
             /\ calls'[Len(calls')].op = "load"
             /\ error' = NoError]_vars

\* C19 as stated: when a load whose readAll() succeeded completes, the
\* mirror is the sequence read, error is null and loading is false.
C19_LoadSuccess ==
  [][\A i \in 1..Len(calls) :
       (/\ calls[i].op = "load"
        /\ calls[i].pc = "ret"
        /\ calls' = RemoveAt(calls, i))
         => /\ tasks' = calls[i].read
            /\ error' = NoError
            /\ loading' = FALSE]_vars

\* C19 amended: when a load whose readAll() succeeded completes, the mirror
\* is the sequence read and loading is false; error is null when every call
\* is awaited before the next is issued.
C19_LoadSuccessAwaited ==
  [][\A i \in 1..Len(calls) :
       (/\ calls[i].op = "load"
        /\ calls[i].pc = "ret"
        /\ calls' = RemoveAt(calls, i))
         => /\ tasks' = calls[i].read
            /\ awaited => error' = NoError
            /\ loading' = FALSE]_vars

C19_Witness ==
  \E i \in Returned("load") :
    /\ awaited
    /\ tasks # <<>>
    /\ calls[i].read # <<>>
    /\ error = NoError

\* C20 as stated: an updateTask of an id whose createTask has resolved, with
\* no removeTask of the id and no clear issued since, finds the task in the
\* store and replaces the mirror entries with that id by the updated task.
C20_UpdateObservesCreate ==
  [][\A i \in 1..Len(calls) :
       (/\ calls[i].op = "update"
        /\ calls[i].live
        /\ calls[i].pc = "ret"
        /\ calls' = RemoveAt(calls, i))
         => /\ calls[i].ret # <<>>
            /\ Hits(tasks, calls[i].id) # {}
            /\ Len(tasks') = Len(tasks)
            /\ \A k \in Hits(tasks, calls[i].id) :
                  tasks'[k] = calls[i].ret[1]]_vars

\* C20 amended: the same, when every call is awaited before the next is
\* issued and the store calls of the update succeed.
C20_UpdateObservesCreateAwaited ==
  [][\A i \in 1..Len(calls) :
       (/\ awaited
        /\ calls[i].op = "update"
        /\ calls[i].live
        /\ calls[i].pc = "ret"
        /\ calls' = RemoveAt(calls, i))
         => /\ calls[i].ret # <<>>
            /\ Hits(tasks, calls[i].id) # {}
            /\ Len(tasks') = Len(tasks)
            /\ \A k \in Hits(tasks, calls[i].id) :
                  tasks'[k] = calls[i].ret[1]]_vars

C20_Witness ==
  \E i \in Returned("update") :
    /\ awaited
    /\ calls[i].live
    /\ calls[i].ret # <<>>
    /\ Hits(tasks, calls[i].id) # {}
    /\ FieldValues(calls[i].ret[1]) \notin FieldValueSet(tasks)

\* C21: in a runtime without crypto or without getRandomValues, the id
\* create assigns is produced by the fallback strategy.
C21_FallbackIdWithoutCrypto ==
  \A i \in 1..Len(calls) :
    (cryptoEnv = "missing" /\ calls[i].op = "create" /\ calls[i].ret # <<>>)
       => calls[i].ret[1]["id"].gen = "b36"

\* C22: after clearAll the key is absent; after remove of the last task the
\* key holds an empty array; readAll() is empty in both.
C22_AbsentVersusEmpty ==
  /\ \A i \in Returned("clear") : blob.kind = "absent" /\ ReadAll = <<>>
  /\ \A i \in Returned("remove") :
        (Len(calls[i].read) = 1 /\ calls[i].id \in Ids(calls[i].read))
           => blob.kind = "array" /\ blob.val = <<>> /\ ReadAll = <<>>

C22_Witness ==
  \E i \in Returned("remove") :
    /\ Len(calls[i].read) = 1
    /\ calls[i].id \in Ids(calls[i].read)
    /\ blob # Absent

\* C23: update of an existing task stores, at each position the id has, a
\* task that keeps the value of every field the partial lacks, keeps id and
\* createdAt, and has the update's clock reading as updatedAt whatever the
\* partial carries; the task update returns equals the task stored under
\* the id.
C23_UpdateMerges ==
  \A i \in Returned("update") :
    LET c == calls[i] IN
    c.id \in Ids(c.read) =>
       /\ c.ret # <<>>
       /\ \A k \in Hits(c.read, c.id) :
            /\ \A f \in DOMAIN c.read[k] \ (DOMAIN c.arg \cup {"updatedAt"}) :
                  f \in DOMAIN ReadAll[k] /\ ReadAll[k][f] = c.read[k][f]
            /\ ReadAll[k]["id"] = c.id
            /\ ReadAll[k]["createdAt"] = c.read[k]["createdAt"]
            /\ ReadAll[k]["updatedAt"] = c.at
       /\ \A k \in Hits(ReadAll, c.id) :
            FieldValues(ReadAll[k]) = FieldValues(c.ret[1])

\* C24: update leaves every task with another id as it was and where it
\* was, keeps the length of the persisted collection and the positions of
\* the updated tasks.
C24_UpdateFrame ==
  \A i \in Returned("update") :
    LET c == calls[i] IN
    /\ Len(ReadAll) = Len(c.read)
    /\ \A k \in 1..Len(c.read) :
         IF c.read[k]["id"] = c.id
         THEN ReadAll[k]["id"] = c.id
         ELSE FieldValues(ReadAll[k]) = FieldValues(c.read[k])

C24_Witness ==
  \E i \in Returned("update") :
    LET c == calls[i] IN
    /\ "title" \in DOMAIN c.arg
    /\ Len(c.read) = 2
    /\ Hits(c.read, c.id) = {2}
    /\ c.read[1]["title"] # c.arg["title"]

\* C25: when updateTask's store call returns a task, the mirror entries with
\* the id become that task where they are and every other entry stays as it
\* is; when it returns undefined the mirror stays as it is, also when it
\* holds an entry with the id.
C25_UpdateTaskMirror ==
  [][\A i \in 1..Len(calls) :
       (/\ calls[i].op = "update"
        /\ calls[i].pc = "ret"
        /\ calls' = RemoveAt(calls, i))
         => IF calls[i].ret = <<>>
            THEN tasks' = tasks
            ELSE /\ Len(tasks') = Len(tasks)
                 /\ \A k \in 1..Len(tasks) :
                      tasks'[k] = IF tasks[k]["id"] = calls[i].id
                                  THEN calls[i].ret[1]
                                  ELSE tasks[k]]_vars

C25_Witness ==
  \E i \in Returned("update") :
    /\ calls[i].ret = <<>>
    /\ calls[i].id \in Ids(tasks)

\* C26: when removeTask(id) completes, the persisted collection is the one
\* remove read without the tasks having the id, and the mirror is the mirror
\* without the entries having the id; the others stay as they are, in the
\* order they had.
C26_RemoveExactly ==
  [][\A i \in 1..Len(calls) :
       (/\ calls[i].op = "remove"
        /\ calls[i].pc = "ret"
        /\ calls' = RemoveAt(calls, i))
         => LET Other(t) == t["id"] # calls[i].id
            IN  /\ calls[i].id \notin Ids(ReadAll)
                /\ calls[i].id \notin Ids(tasks')
                /\ FieldValuesOf(ReadAll)
                     = FieldValuesOf(SelectSeq(calls[i].read, Other))
                /\ tasks' = SelectSeq(tasks, Other)]_vars

C26_Witness ==
  \E i \in Returned("remove") :
    /\ Len(calls[i].read) = 2
    /\ Len(tasks) = 2
    /\ Hits(calls[i].read, calls[i].id) = {2}
    /\ Hits(tasks, calls[i].id) = {2}

\* C27: create followed by remove of the id create returned, with no
\* operation in between, leaves readAll() as it was before the create.
C27_CreateThenRemove ==
  \A i \in Returned("remove") :
    calls[i].arg # <<>>
       => FieldValuesOf(ReadAll) = FieldValuesOf(calls[i].arg[1])

\* C28: until the mount effect runs, loading is true, the mirror is empty
\* and error is null; the mount effect runs and starts a load; and whenever
\* loading is true it becomes false, whether the storage call of the load
\* resolves or rejects.
C28_LoadingEnds ==
  /\ [](~mounted => (loading /\ tasks = <<>> /\ error = NoError))
  /\ <>mounted
  /\ (loading ~> ~loading)

C28_Witness ==
  /\ mounted
  /\ ~loading
  /\ error # NoError
  /\ nOps > 0

\* C29: once the mount effect has run, loading is true only while a load is
\* in flight; and loading and error change only when a load starts or
\* completes, never in createTask, updateTask, removeTask or clear.
C29_LoadingOnlyDuringLoad ==
  /\ [](mounted /\ loading
          => \E i \in 1..Len(calls) : calls[i].op = "load")
  /\ [][(loading' # loading \/ error' # error)
          => \/ /\ Len(calls') = Len(calls) + 1
                /\ calls'[Len(calls')].op = "load"
             \/ \E i \in 1..Len(calls) :
                   calls[i].op = "load" /\ calls' = RemoveAt(calls, i)]_vars

C29_Witness ==
  \E i \in 1..Len(calls) :
    /\ calls[i].op # "load"
    /\ calls[i].pc = "ret"
    /\ ~loading
    /\ error # NoError

\* C30 as stated: create, update, remove and clearAll each read the key
\* once per call; create, update and remove each write the collection once
\* per call, also when the id is not found; clearAll writes no collection.
C30_OneReadOneWrite ==
  \A i \in 1..Len(calls) :
    (calls[i].pc = "ret" /\ calls[i].op # "load")
       => /\ calls[i].reads = 1
          /\ calls[i].writes = IF calls[i].op = "clear" THEN 0 ELSE 1

\* C30 amended: create, update and remove each read the key once and write
\* the collection once per call, also when the id is not found; clearAll
\* neither reads the key nor writes a collection, it removes the key.
C30_OneReadOneWriteButClear ==
  \A i \in 1..Len(calls) :
    (calls[i].pc = "ret" /\ calls[i].op # "load")
       => IF calls[i].op = "clear"
          THEN calls[i].reads = 0 /\ calls[i].writes = 0
          ELSE calls[i].reads = 1 /\ calls[i].writes = 1

C30_Witness ==
  \E i \in Returned("update") :
    /\ calls[i].ret = <<>>
    /\ calls[i].read # <<>>
    /\ calls[i].reads = 1
    /\ calls[i].writes = 1

\* C31: readById(id) returns the first task, in readAll() order, whose id
\* is id, and undefined when no task has that id or when the key is absent
\* or holds no array; readById makes one read and no write, and no step of
\* it changes the persisted value.
C31_ReadById ==
  /\ \A i \in Returned("readById") :
       LET c == calls[i]
           hits == Hits(ReadAll, c.id)
       IN  /\ calls[i].raw = blob
           /\ hits = {} => c.ret = <<>>
           /\ hits # {} =>
                \E k \in hits : /\ \A l \in hits : k <= l
                                /\ c.ret = <<ReadAll[k]>>
           /\ blob.kind # "array" => c.ret = <<>>
  /\ \A i \in 1..Len(calls) :
       calls[i].op = "readById" => calls[i].writes = 0 /\ calls[i].reads <= 1

\* A readById that found its task among several with the same id, the
\* first differing from the last
C31_Witness ==
  \E i \in Returned("readById") :
    LET hits == Hits(ReadAll, calls[i].id)
    IN  /\ Cardinality(hits) > 1
        /\ \E k, l \in hits : k < l /\ ReadAll[k] # ReadAll[l]
        /\ calls[i].ret # <<>>

\* C32: the mirror never holds two entries with the same id, also when a
\* load overlaps a createTask: the task a load has read is not prepended a
\* second time by the createTask that created it.
C32_MirrorIdsDistinct ==
  \A k, l \in 1..Len(tasks) : k # l => tasks[k]["id"] # tasks[l]["id"]

\* The calls of create, update and remove whose store function has returned
Mutated == Returned("create") \cup Returned("update") \cup Returned("remove")

\* What create, update and remove save when they read no task
FromEmpty(c) ==
  IF c.op = "create" THEN <<StringifyTask(c.ret[1])>> ELSE <<>>

\* C33: after a successful create, update or remove the key is present and
\* holds a well-formed sequence of tasks, whatever it held before; an absent
\* key and a malformed value are replaced by the result computed from the
\* empty collection.
C33_WellFormedAfterMutation ==
  \A i \in Mutated :
    /\ blob.kind = "array"
    /\ \A k \in 1..Len(blob.val) : WellFormed(blob.val[k])
    /\ calls[i].raw.kind # "array" => blob.val = FromEmpty(calls[i])

\* C33 as amended: after a successful create, update or remove the key is
\* present and holds an array, whatever it held before; an absent key and a
\* value that does not parse or is not an array are replaced by the result
\* computed from the empty collection; the array holds well-formed tasks
\* when every element read was one.
C33_ArrayAfterMutation ==
  \A i \in Mutated :
    /\ blob.kind = "array"
    /\ (\A k \in 1..Len(calls[i].read) : WellFormed(calls[i].read[k]))
         => \A k \in 1..Len(blob.val) : WellFormed(blob.val[k])
    /\ calls[i].raw.kind # "array" => blob.val = FromEmpty(calls[i])

\* An update of an unknown id has replaced a value that is not an array
C33_Witness ==
  \E i \in Returned("update") :
    /\ calls[i].raw.kind \in {"garbage", "object"}
    /\ calls[i].ret = <<>>
    /\ blob = SaveAll(<<>>)

\* The calls toggleDone made
Toggles == {i \in 1..Len(calls) : calls[i].shown # <<>>}

\* C34: toggleDone sends the negation of done of the task as the mirror
\* shows it when called: two toggleDone calls on the same task as shown,
\* the second made while the first is in flight, send the same value, and
\* each call that finds the task leaves the mirror's entry with done
\* flipped once from what was shown, not restored.
C34_ToggleFromMirror ==
  /\ [](\A i \in Toggles :
         /\ calls[i].arg = [done |-> ~calls[i].shown[1]]
         /\ \A j \in Toggles :
              (calls[j].id = calls[i].id /\ calls[j].shown = calls[i].shown)
                 => calls[j].arg = calls[i].arg
         /\ (calls[i].pc = "ret" /\ calls[i].ret # <<>>)
              => calls[i].ret[1]["done"] = ~calls[i].shown[1])
  /\ [][/\ (Len(calls') = Len(calls) + 1 /\ calls'[Len(calls')].shown # <<>>)
            => \E k \in 1..Len(tasks) :
                 /\ tasks[k]["id"] = calls'[Len(calls')].id
                 /\ tasks[k]["done"] = calls'[Len(calls')].shown[1]
        /\ \A i \in Toggles :
             (calls[i].pc = "ret" /\ calls[i].ret # <<>>
                /\ calls' = RemoveAt(calls, i))
               => \A k \in 1..Len(tasks') :
                    tasks'[k]["id"] = calls[i].id
                      => tasks'[k]["done"] = ~calls[i].shown[1]]_vars

\* Two toggleDone calls on the same task as shown are in flight, the
\* second made before the first completed; the first has returned the task
\* and its continuation is about to flip the mirror's entry
C34_Witness ==
  \E i, j \in Toggles :
    /\ i < j
    /\ calls[j].id = calls[i].id
    /\ calls[j].shown = calls[i].shown
    /\ calls[i].pc = "ret" /\ calls[i].ret # <<>>
    /\ \E k \in 1..Len(tasks) :
         /\ tasks[k]["id"] = calls[i].id
         /\ tasks[k]["done"] = calls[i].shown[1]
====
